---- MODULE Spec2Model ----
(***************************************************************************)
(* Roster generation engine of clinical-roster.                            *)
(*                                                                         *)
(* Dates of the roster window are the integers roster_start..roster_end    *)
(* (one integer per calendar day, in calendar order).  Staff are numbered  *)
(* in the order of their first row in the leave table, which is the order  *)
(* of df[staff_col].unique().                                              *)
(***************************************************************************)
EXTENDS Integers, Sequences, FiniteSets, TLC

\* ---------------------------------------------------------------- bounds
MaxStaff == 3
NumDates == 2

Specialties == {"Cardiology", "Surgery"}
MinStaffValues == {1, 2, 3}

VARIABLES
    all_staff,          \* sequence of staff, table order
    specialty,          \* staff -> specialty of the staff's first row
    leave_dates,        \* staff -> set of dates on leave
    dates,              \* the dates roster_start..roster_end, in order
    min_staff,          \* rules['min_staff_per_day']
    set_order,          \* the order in which this interpreter iterates a set of
                        \* specialty names (it follows the strings' hashes)
    current_date,       \* loop variable of generate_roster_logic
    staff_work_count,   \* staff -> days assigned so far
    roster,             \* date -> entry, for the dates processed so far
    stats,              \* coverage_stats, or NoStats before the end
    domains,            \* RosterCSP.domains: (staff, date) -> subset of {0, 1}
    constraints,        \* RosterCSP.constraints, in registration order
    assignment,         \* the assignment dict a solver is working on
    bt_stack,           \* the active _backtrack calls: their var and untried values
    iterations,         \* RosterSolver.iterations
    solution,           \* the value a solver returned (NoSolution for None)
    algorithm,          \* the last solver or generator that was started
    run2,               \* a second run of generate_roster_logic on the same input
    request,            \* what the client sent besides the leave table and dates
    generated_roster,   \* the GeneratedRoster row the handler committed, if any
    start_weekday,      \* roster_start.weekday(): 0 is Monday, 6 is Sunday
    sg_holidays,        \* the dates the Singapore holiday calendar holds
    sg_cache,           \* the module-level sg_holidays object: the years it has
                        \* marked as populated and the dates it holds so far
    threads,            \* concurrent requests: each one's position and roster
    penalty,            \* what calculate_penalty and the soft constraints returned
    earlier,            \* what an earlier request with other inputs produced
    leave_table,        \* the rows of the uploaded leave file, where kept
    verdict,            \* what a constraint's check and its translation answered
    pc

reqVars == <<all_staff, specialty, leave_dates, dates, min_staff, set_order>>
genVars == <<current_date, staff_work_count, run2>>
cspVars == <<domains, constraints>>
solverVars == <<assignment, bt_stack, iterations, solution, algorithm>>
routeVars == <<request, generated_roster>>
\* the state outside the generators and the solvers
calVars == <<start_weekday, sg_holidays>>
concVars == <<sg_cache, threads>>
pureVars == <<penalty, earlier, leave_table, verdict>>
auxVars == <<routeVars, calVars, concVars, pureVars>>

vars == <<all_staff, specialty, leave_dates, dates, min_staff, set_order, current_date,
          staff_work_count, roster, stats, domains, constraints, assignment,
          bt_stack, iterations, solution, algorithm, run2, request,
          generated_roster, start_weekday, sg_holidays, sg_cache, threads,
          penalty, earlier, leave_table, verdict, pc>>

roster_start == 1
roster_end == Len(dates)
Dates == roster_start..roster_end

NoStats == [total_days |-> 0]
\* an Optional[Dict]: None, or the dict x
NoSolution == [is_none |-> TRUE, value |-> << >>]
Some(x) == [is_none |-> FALSE, value |-> x]

\* ------------------------------------------------------- sequence helpers
Range(s) == {s[i] : i \in DOMAIN s}

Min2(a, b) == IF a <= b THEN a ELSE b

Take(s, k) == SubSeq(s, 1, Min2(k, Len(s)))

Pos(s, x) == CHOOSE i \in DOMAIN s : s[i] = x

PermsOf(s) == {t \in [DOMAIN s -> Range(s)] : Range(t) = Range(s)}

\* a sort that is ascending in the key but not stable
IsSortOutcomeUnstable(s, t, key) ==
    /\ t \in PermsOf(s)
    /\ \A i, j \in DOMAIN t : i < j => key[t[i]] <= key[t[j]]

\* list.sort / sorted with a key: t is s in ascending order of the key, and
\* stable (elements with equal keys keep the order they had in s)
IsSortOutcome(s, t, key) ==
    /\ t \in PermsOf(s)
    /\ \A i, j \in DOMAIN t : i < j => key[t[i]] <= key[t[j]]
    /\ \A i, j \in DOMAIN t :
          (i < j /\ key[t[i]] = key[t[j]]) => Pos(s, t[i]) < Pos(s, t[j])

\* the orders a set of specialty names can iterate in, one per hash seed
SetOrders == {t \in [1..Cardinality(Specialties) -> Specialties] : Range(t) = Specialties}

\* list(a_set): the members in the interpreter's iteration order
ListOfSet(S, order) == SelectSeq(order, LAMBDA x : x \in S)

\* a sort that leaves the list in the order it had
SortOutcomesUnsorted(s, key) == {s}

SortOutcomes(s, key) == {t \in PermsOf(s) : IsSortOutcome(s, t, key)}

\* --------------------------------------------------- generate_roster_logic
StaffSet == Range(all_staff)

all_specialties == {specialty[s] : s \in StaffSet}

\* leave rows of one staff member: [start, end] inclusive
LeaveDatesOfRow(row) == {d \in row.start..row.end : TRUE}

OnLeave(s, d) == d \in leave_dates[s]

available_staff(d) == SelectSeq(all_staff, LAMBDA s : ~OnLeave(s, d))

\* keys of staff_by_specialty, in insertion order (first appearance in a)
RECURSIVE SpecialtyKeys(_, _, _)
SpecialtyKeys(a, i, acc) ==
    IF i > Len(a) THEN acc
    ELSE IF specialty[a[i]] \in Range(acc)
         THEN SpecialtyKeys(a, i + 1, acc)
         ELSE SpecialtyKeys(a, i + 1, Append(acc, specialty[a[i]]))

staff_by_specialty(a, sp) == SelectSeq(a, LAMBDA s : specialty[s] = sp)

\* a loop over sorted_specialties that stops one pick before min_staff
RECURSIVE OnePerSpecialtyOneShort(_, _, _, _, _)
OnePerSpecialtyOneShort(ss, a, work, i, sel) ==
    IF i > Len(ss) THEN {sel}
    ELSE IF Len(sel) < min_staff - 1
         THEN UNION { OnePerSpecialtyOneShort(ss, a, work, i + 1, Append(sel, t[1])) :
                        t \in SortOutcomes(staff_by_specialty(a, ss[i]), work) }
         ELSE OnePerSpecialtyOneShort(ss, a, work, i + 1, sel)

\* "Select one staff from each specialty first": the selections the loop over
\* sorted_specialties can end with, from position i with sel selected so far
RECURSIVE OnePerSpecialty(_, _, _, _, _)
OnePerSpecialty(ss, a, work, i, sel) ==
    IF i > Len(ss) THEN {sel}
    ELSE IF Len(sel) < min_staff
         THEN UNION { OnePerSpecialty(ss, a, work, i + 1, Append(sel, t[1])) :
                        t \in SortOutcomes(staff_by_specialty(a, ss[i]), work) }
         ELSE OnePerSpecialty(ss, a, work, i + 1, sel)

\* a generator that stops after the one-per-specialty picks
FillRemainingSkipped(sel, a, work) == {sel}

\* "If we still need more staff, add based on fair distribution"
FillRemaining(sel, a, work) ==
    LET remaining_staff == SelectSeq(a, LAMBDA s : s \notin Range(sel))
    IN  { sel \o Take(r, min_staff - Len(sel)) :
            r \in SortOutcomes(remaining_staff, work) }

\* a generator without the specialty-based selection
SelectByWorkloadOnly(a, work) ==
    LET sel == Take(a, min_staff)
    IN  { [staff |-> sel,
           specialties |-> {specialty[sel[i]] : i \in DOMAIN sel}] }

\* selected_staff and selected_specialties for an already sorted available list
SelectFromAvailable(a, work) ==
    IF Len(a) >= Cardinality(all_specialties)
    THEN LET keys == SpecialtyKeys(a, 1, << >>)
             cnt  == [sp \in Range(keys) |-> Len(staff_by_specialty(a, sp))]
         IN  UNION { UNION { { [staff |-> sel,
                                specialties |-> {specialty[f[i]] : i \in DOMAIN f}] :
                                  sel \in FillRemaining(f, a, work) } :
                               f \in OnePerSpecialty(ss, a, work, 1, << >>) } :
                       ss \in SortOutcomes(keys, cnt) }
    ELSE LET sel == Take(a, min_staff)
         IN  { [staff |-> sel,
                specialties |-> {specialty[sel[i]] : i \in DOMAIN sel}] }

\* every (selected_staff, selected_specialties) one pass of the loop body can
\* compute for date d with the work counts work
DaySelections(d, work) ==
    UNION { SelectFromAvailable(a, work) :
              a \in SortOutcomes(available_staff(d), work) }

\* current_date.weekday()
Weekday(d) == (start_weekday + (d - roster_start)) % 7

\* a holiday check that leaves the in-lieu Monday as it found it
DateFlagsHolidayOnly(d) ==
    LET is_in_lieu == Weekday(d) = 0 /\ (d - 1) \in sg_holidays
    IN  [is_weekend |-> Weekday(d) >= 5,
         is_holiday |-> d \in sg_holidays,
         is_in_lieu |-> is_in_lieu]

\* "Check if it's a public holiday" and "Apply Monday in-lieu for Sunday
\* holidays"; format_solution_as_roster repeats the same statements
DateFlags(d) ==
    LET is_in_lieu == Weekday(d) = 0 /\ (d - 1) \in sg_holidays
    IN  [is_weekend |-> Weekday(d) >= 5,
         is_holiday |-> d \in sg_holidays \/ is_in_lieu,
         is_in_lieu |-> is_in_lieu]

RosterEntry(d, choice, order) ==
    [staff |-> choice.staff,
     specialties |-> ListOfSet(choice.specialties, order),
     available_count |-> Len(available_staff(d)),
     is_weekend |-> DateFlags(d).is_weekend,
     is_holiday |-> DateFlags(d).is_holiday,
     is_in_lieu |-> DateFlags(d).is_in_lieu]

\* roster[date_str] = {...}
StoreEntry(r, d, choice, order) ==
    [e \in (DOMAIN r) \cup {d} |->
        IF e = d THEN RosterEntry(d, choice, order) ELSE r[e]]

\* the work counts are left as they were
UpdateWorkCountsSkipped(work, sel) ==
    [s \in DOMAIN work |-> work[s]]

UpdateWorkCounts(work, sel) ==
    [s \in DOMAIN work |-> IF s \in Range(sel) THEN work[s] + 1 ELSE work[s]]

\* one iteration of "while current_date <= roster_end"
ProcessDate ==
    /\ pc = "loop"
    /\ current_date <= roster_end
    /\ \E choice \in DaySelections(current_date, staff_work_count) :
          /\ roster' = StoreEntry(roster, current_date, choice, set_order)
          /\ staff_work_count' = UpdateWorkCounts(staff_work_count, choice.staff)
    /\ current_date' = current_date + 1
    /\ UNCHANGED <<auxVars, reqVars, cspVars, solverVars, stats, run2, pc>>

\* generate_roster_logic is called: its statements before the loop
GenerateRosterLogic ==
    /\ pc = "ready"
    /\ algorithm' = "greedy"
    /\ pc' = "loop"
    /\ UNCHANGED <<auxVars, reqVars, genVars, cspVars, roster, stats, assignment,
                   bt_stack, iterations, solution>>

\* "Calculate statistics" and return
CoverageStats(r, work, min) ==
    LET total_days == Cardinality(DOMAIN r)
        days_understaffed == Cardinality({d \in DOMAIN r : Len(r[d].staff) < min})
    IN  [total_days |-> total_days,
         days_understaffed |-> days_understaffed,
         \* ((total_days - days_understaffed) / total_days) * 100 as a ratio
         coverage_percentage |-> <<(total_days - days_understaffed) * 100, total_days>>,
         staff_work_distribution |-> work]

\* with an empty roster the coverage percentage divides by zero: the
\* function raises and its caller's "except" reports the error
Finish ==
    /\ pc = "loop"
    /\ current_date > roster_end
    /\ IF Cardinality(DOMAIN roster) = 0
       THEN /\ pc' = "failed"
            /\ UNCHANGED stats
       ELSE /\ stats' = CoverageStats(roster, staff_work_count, min_staff)
            /\ pc' = "done"
    /\ UNCHANGED <<auxVars, reqVars, genVars, cspVars, solverVars, roster>>

\* ------------------------------------------------------------ constraints
Cells == {<<s, d>> : s \in StaffSet, d \in Dates}

\* assignment.get(cell, 0)
Get(asg, cell) == IF cell \in DOMAIN asg THEN asg[cell] ELSE 0

\* MinimumStaffConstraint.check
MinimumStaffCheck(min, asg) ==
    \A d \in Dates :
        Cardinality({s \in StaffSet : Get(asg, <<s, d>>) = 1}) >= min

\* the loop over self.dates of MaxConsecutiveDaysConstraint.check for one staff
RECURSIVE ConsecutiveOk(_, _, _, _, _)
ConsecutiveOk(asg, s, i, consecutive, max_days) ==
    IF i > Len(dates) THEN TRUE
    ELSE IF Get(asg, <<s, dates[i]>>) = 1
         THEN IF consecutive + 1 > max_days THEN FALSE
              ELSE ConsecutiveOk(asg, s, i + 1, consecutive + 1, max_days)
         ELSE ConsecutiveOk(asg, s, i + 1, 0, max_days)

\* a check that already fails a run of max_days dates
MaxConsecutiveDaysCheckStrict(max_days, asg) ==
    \A s \in StaffSet : ConsecutiveOk(asg, s, 1, 0, max_days - 1)

\* MaxConsecutiveDaysConstraint.check
MaxConsecutiveDaysCheck(max_days, asg) ==
    \A s \in StaffSet : ConsecutiveOk(asg, s, 1, 0, max_days)

\* the loop of MinRestPeriodConstraint.check for one staff; last_work_idx = 0
\* stands for None
RECURSIVE RestOk(_, _, _, _, _)
RestOk(asg, s, i, last_work_idx, min_rest_days) ==
    IF i > Len(dates) THEN TRUE
    ELSE IF Get(asg, <<s, dates[i]>>) = 1
         THEN IF last_work_idx # 0 /\ i - last_work_idx - 1 < min_rest_days
              THEN FALSE
              ELSE RestOk(asg, s, i + 1, i, min_rest_days)
         ELSE RestOk(asg, s, i + 1, last_work_idx, min_rest_days)

\* MinRestPeriodConstraint.check
MinRestPeriodCheck(min_rest_days, asg) ==
    \A s \in StaffSet : RestOk(asg, s, 1, 0, min_rest_days)

unique_specialties == {specialty[s] : s \in StaffSet}

Min3(a, b, c) == Min2(a, Min2(b, c))

\* SpecialtyCoverageConstraint.check
SpecialtyCoverageCheck(min_specialties_per_day, asg) ==
    \A d \in Dates :
        LET covered_specialties ==
                {specialty[s] : s \in {t \in StaffSet :
                    <<t, d>> \in DOMAIN asg /\ asg[<<t, d>>] = 1}}
            available ==
                Cardinality({s \in StaffSet : <<s, d>> \in DOMAIN asg})
            required_specialties ==
                Min3(min_specialties_per_day, Cardinality(unique_specialties),
                     available)
        IN  Cardinality(covered_specialties) >= required_specialties

\* constraint.check(assignment) of a registered hard constraint
Check(c, asg) ==
    CASE c.name = "minimum_staff" -> MinimumStaffCheck(c.n, asg)
      [] c.name = "max_consecutive_days" -> MaxConsecutiveDaysCheck(c.n, asg)
      [] c.name = "min_rest_period" -> MinRestPeriodCheck(c.n, asg)
      [] c.name = "specialty_coverage" -> SpecialtyCoverageCheck(c.n, asg)

\* ------------------------------------------------- the soft constraints
RECURSIVE SumOver(_, _)
\* sum(f[x] for x in S)
SumOver(S, f) ==
    IF S = {} THEN 0
    ELSE LET x == CHOOSE y \in S : TRUE
         IN  f[x] + SumOver(S \ {x}, f)

RECURSIVE SumSeq(_)
SumSeq(q) == IF q = << >> THEN 0 ELSE Head(q) + SumSeq(Tail(q))

\* Penalties are fractions with denominator len(staff)^3; the model holds
\* their numerators.
PenaltyScale == Len(all_staff) * Len(all_staff) * Len(all_staff)

AssignedCells(asg) == {c \in DOMAIN asg : asg[c] = 1}

\* FairWorkloadConstraint.penalty
FairWorkloadPenalty(c, asg) ==
    LET n == Len(all_staff)
        workloads == [s \in StaffSet |->
                         Cardinality({v \in AssignedCells(asg) : v[1] = s})]
        total == SumOver(StaffSet, workloads)
        \* variance = squares / n^3
        squares == SumOver(StaffSet,
                           [s \in StaffSet |->
                              (n * workloads[s] - total) * (n * workloads[s] - total)])
    IN  IF squares <= c.max_variance * PenaltyScale
        THEN 0
        ELSE c.weight * (squares - c.max_variance * PenaltyScale)

\* WeekendPreferenceConstraint.penalty, weekend_dates from _identify_weekend_dates
WeekendPreferencePenalty(c, asg) ==
    LET weekend_dates == {d \in Dates : Weekday(d) >= 5}
        total_penalty ==
            SumOver({v \in AssignedCells(asg) : v[2] \in weekend_dates},
                    [v \in Cells |-> c.preferences[v[1]]])
    IN  c.weight * total_penalty * PenaltyScale

\* HolidayDistributionConstraint.penalty
HolidayDistributionPenalty(c, asg) ==
    LET n == Len(all_staff)
        total_holidays ==
            [s \in StaffSet |->
                c.historical_counts[s]
                + Cardinality({v \in AssignedCells(asg) :
                                  v[1] = s /\ v[2] \in c.holidays})]
        total == SumOver(StaffSet, total_holidays)
        \* variance = squares / n^2
        squares == SumOver(StaffSet,
                           [s \in StaffSet |->
                              (n * total_holidays[s] - total)
                              * (n * total_holidays[s] - total)])
    IN  c.weight * squares * n

\* a constraint that counts teammates present as a reward
TeamPreferenceReward(c, asg) ==
    LET missing(s, working) ==
            Cardinality({i \in DOMAIN c.team_preferences[s] :
                            c.team_preferences[s][i] \in working})
            - Len(c.team_preferences[s])
        for_date(d) ==
            LET working_staff == {s \in StaffSet : <<s, d>> \in AssignedCells(asg)}
            IN  SumOver(working_staff, [s \in StaffSet |-> missing(s, working_staff)])
    IN  c.weight * SumOver(Dates, [d \in Dates |-> for_date(d)]) * PenaltyScale

\* TeamPreferenceConstraint.penalty
TeamPreferencePenalty(c, asg) ==
    LET missing(s, working) ==
            Len(c.team_preferences[s])
            - Cardinality({i \in DOMAIN c.team_preferences[s] :
                              c.team_preferences[s][i] \in working})
        for_date(d) ==
            LET working_staff == {s \in StaffSet : <<s, d>> \in AssignedCells(asg)}
            IN  SumOver(working_staff, [s \in StaffSet |-> missing(s, working_staff)])
    IN  c.weight * SumOver(Dates, [d \in Dates |-> for_date(d)]) * PenaltyScale

\* constraint.penalty(assignment)
Penalty(c, asg) ==
    CASE c.name = "fair_workload" -> FairWorkloadPenalty(c, asg)
      [] c.name = "weekend_preference" -> WeekendPreferencePenalty(c, asg)
      [] c.name = "holiday_distribution" -> HolidayDistributionPenalty(c, asg)
      [] c.name = "team_preference" -> TeamPreferencePenalty(c, asg)

\* ------------------------------------------------------------- RosterCSP
\* RosterCSP.get_hard_constraints
get_hard_constraints == SelectSeq(constraints, LAMBDA c : c.type = "hard")

\* RosterCSP.get_soft_constraints
get_soft_constraints == SelectSeq(constraints, LAMBDA c : c.type = "soft")

\* RosterCSP.calculate_penalty, with the penalty of every soft constraint
calculate_penalty(asg) ==
    LET by_constraint == [i \in DOMAIN get_soft_constraints |->
                             Penalty(get_soft_constraints[i], asg)]
    IN  [total |-> SumSeq(by_constraint), by_constraint |-> by_constraint]

\* RosterCSP.is_consistent
is_consistent(asg) ==
    \A i \in DOMAIN get_hard_constraints : Check(get_hard_constraints[i], asg)

\* RosterCSP.is_complete
is_complete(asg) ==
    Cardinality(DOMAIN asg) = Len(all_staff) * Len(dates)

\* domains that ignore the leave schedule
InitialDomainsIgnoringLeave == [c \in Cells |-> {0, 1}]

\* RosterCSP.__init__ followed by RosterCSP.initialize_domains(leave_schedule),
\* leave_schedule being extract_leave_schedule of the leave table
InitialDomains ==
    [c \in Cells |-> IF c[2] \in leave_dates[c[1]] THEN {0} ELSE {0, 1}]

\* RosterCSP.get_unassigned_variables: staff-major order
get_unassigned_variables(asg) ==
    LET all == [k \in 1..(Len(all_staff) * Len(dates)) |->
                  <<all_staff[((k - 1) \div Len(dates)) + 1],
                    dates[((k - 1) % Len(dates)) + 1]>>]
    IN  SelectSeq(all, LAMBDA c : c \notin DOMAIN asg)

Extend(asg, var, value) ==
    [c \in (DOMAIN asg) \cup {var} |-> IF c = var THEN value ELSE asg[c]]

Remove(asg, var) == [c \in (DOMAIN asg) \ {var} |-> asg[c]]

\* RosterCSP.get_consistent_values
get_consistent_values(var, asg) ==
    {value \in domains[var] : is_consistent(Extend(asg, var, value))}

\* RosterCSP.select_unassigned_variable: the first unassigned variable with
\* the fewest legal values
select_unassigned_variable(asg) ==
    LET unassigned == get_unassigned_variables(asg)
        legal == [i \in DOMAIN unassigned |->
                    Cardinality(get_consistent_values(unassigned[i], asg))]
        best == CHOOSE i \in DOMAIN unassigned :
                   /\ \A j \in DOMAIN unassigned : legal[i] <= legal[j]
                   /\ \A j \in DOMAIN unassigned : j < i => legal[j] > legal[i]
    IN  unassigned[best]

\* RosterCSP.order_domain_values: sorted(values, reverse=True)
order_domain_values(var) ==
    IF domains[var] = {0, 1} THEN <<1, 0>>
    ELSE IF domains[var] = {1} THEN <<1>> ELSE <<0>>

\* ----------------------------------------------------------- RosterSolver
DefaultMinRequired == 2
DefaultMaxConsecutive == 5
FormatMinStaff == 2

\* x[(staff, date)] is an LpVariable (and not the constant 0)
IsLpVariable(c) == 1 \in domains[c]

Assigned(x, cs) == Cardinality({c \in cs : x[c] = 1})

\* a translation whose sliding windows stop one start index early
AddHardConstraintToModelShort(c, x) ==
    CASE c.name = "minimum_staff" ->
            \A d \in Dates :
                LET staff_vars == {v \in {<<s, d>> : s \in StaffSet} : IsLpVariable(v)}
                IN  staff_vars # {} => Assigned(x, staff_vars) >= c.n
      [] c.name = "max_consecutive_days" ->
            \A s \in StaffSet : \A start_idx \in 0..(Len(dates) - c.n - 2) :
                LET consecutive_vars ==
                        {v \in {<<s, dates[start_idx + i + 1]>> : i \in 0..c.n} :
                            IsLpVariable(v)}
                IN  consecutive_vars # {} => Assigned(x, consecutive_vars) <= c.n
      [] OTHER -> TRUE

\* RosterSolver._add_hard_constraint_to_model: the inequalities constraint c
\* adds to the model, as a predicate on the values x of the decision variables
AddHardConstraintToModel(c, x) ==
    CASE c.name = "minimum_staff" ->
            \A d \in Dates :
                LET staff_vars == {v \in {<<s, d>> : s \in StaffSet} : IsLpVariable(v)}
                IN  staff_vars # {} => Assigned(x, staff_vars) >= c.n
      [] c.name = "max_consecutive_days" ->
            \A s \in StaffSet : \A start_idx \in 0..(Len(dates) - c.n - 1) :
                LET consecutive_vars ==
                        {v \in {<<s, dates[start_idx + i + 1]>> : i \in 0..c.n} :
                            IsLpVariable(v)}
                IN  consecutive_vars # {} => Assigned(x, consecutive_vars) <= c.n
      [] OTHER -> TRUE

\* the decision variables of the model with values: x[cell] is a binary
\* LpVariable where 1 is in the cell's domain, and the constant 0 elsewhere
DecisionValues ==
    LET lp_vars == {c \in Cells : IsLpVariable(c)}
    IN  {[c \in Cells |-> IF c \in lp_vars THEN v[c] ELSE 0] :
            v \in [lp_vars -> {0, 1}]}

\* the values of x that satisfy every inequality added for a hard constraint
ModelFeasible(x) ==
    \A i \in DOMAIN get_hard_constraints :
        AddHardConstraintToModel(get_hard_constraints[i], x)

Abs(k) == IF k < 0 THEN 0 - k ELSE k

Workload(x, s) == Cardinality({d \in Dates : x[<<s, d>>] = 1})

\* the objective max_deviation at its least admissible value, max over staff of
\* |workload - mean_workload|, times len(staff) to stay in the integers
MaxDeviation(x) ==
    LET total == Cardinality({c \in Cells : x[c] = 1})
        dev(s) == Abs(Len(all_staff) * Workload(x, s) - total)
    IN  CHOOSE m \in {dev(s) : s \in StaffSet} :
            \A s \in StaffSet : dev(s) <= m

\* the solutions prob.solve can end with status Optimal on: the admissible x
\* of least objective
PulpOptimal ==
    LET feasible == {x \in DecisionValues : ModelFeasible(x)}
        objective == [x \in feasible |-> MaxDeviation(x)]
        values == {objective[x] : x \in feasible}
        least == CHOOSE m \in values : \A k \in values : m <= k
    IN  {x \in feasible : objective[x] = least}

\* RosterSolver.solve_with_pulp; the optimizer either solves the model or
\* fails (it raises, or ends with a status other than Optimal)
SolveWithPulp ==
    /\ pc = "ready"
    /\ LET optimal == PulpOptimal
       IN  \E optimizer_ok \in BOOLEAN :
              IF optimizer_ok /\ optimal # {}
              THEN \E x \in optimal : solution' = Some(x)
              ELSE solution' = NoSolution
    /\ algorithm' = "pulp"
    /\ pc' = "solved"
    /\ UNCHANGED <<auxVars, reqVars, genVars, cspVars, roster, stats, assignment,
                   bt_stack, iterations>>

\* RosterSolver.solve_with_backtracking up to the call of _backtrack
SolveWithBacktracking ==
    /\ pc = "ready"
    /\ iterations' = 0
    /\ assignment' = [c \in {v \in Cells : domains[v] = {0}} |-> 0]
    /\ bt_stack' = << >>
    /\ algorithm' = "backtracking"
    /\ pc' = "bt_call"
    /\ UNCHANGED <<auxVars, reqVars, genVars, cspVars, roster, stats, solution>>

\* _backtrack with a get_consistent_values that tries the values in the
\* assignment it was given instead of a copy
BacktrackEnterNoCopy ==
    /\ pc = "bt_call"
    /\ iterations' = iterations + 1
    /\ IF is_complete(assignment)
       THEN /\ UNCHANGED assignment
            /\ IF is_consistent(assignment)
               THEN /\ solution' = Some(assignment)
                    /\ pc' = "solved"
                    /\ bt_stack' = << >>
               ELSE /\ pc' = "bt_none"
                    /\ UNCHANGED <<solution, bt_stack>>
       ELSE LET var == select_unassigned_variable(assignment)
            IN  /\ bt_stack' = Append(bt_stack,
                                  [var |-> var, values |-> order_domain_values(var),
                                   entry |-> assignment])
                /\ assignment' =
                      [c \in Cells |->
                          IF c \in DOMAIN assignment THEN assignment[c]
                          ELSE IF 1 \in domains[c] THEN 1 ELSE 0]
                /\ pc' = "bt_loop"
                /\ UNCHANGED solution
    /\ UNCHANGED <<auxVars, reqVars, genVars, cspVars, roster, stats, algorithm>>

\* _backtrack from its entry to the start of its loop, or to its return when
\* the assignment is complete; a complete consistent assignment is returned
\* by every active call, and solve_with_backtracking stores and returns it
BacktrackEnter ==
    /\ pc = "bt_call"
    /\ iterations' = iterations + 1
    /\ IF is_complete(assignment)
       THEN IF is_consistent(assignment)
            THEN /\ solution' = Some(assignment)
                 /\ pc' = "solved"
                 /\ bt_stack' = << >>
            ELSE /\ pc' = "bt_none"
                 /\ UNCHANGED <<solution, bt_stack>>
       ELSE LET var == select_unassigned_variable(assignment)
            IN  /\ bt_stack' = Append(bt_stack,
                                  [var |-> var, values |-> order_domain_values(var),
                                   \* the assignment the call was given
                                   entry |-> assignment])
                /\ pc' = "bt_loop"
                /\ UNCHANGED solution
    /\ UNCHANGED <<auxVars, reqVars, genVars, cspVars, roster, stats, assignment, algorithm>>

\* a pass of the loop that leaves a rejected value in the assignment
BacktrackTryValueNoUndo ==
    /\ pc = "bt_loop"
    /\ bt_stack # << >>
    /\ LET top == bt_stack[Len(bt_stack)]
       IN  /\ top.values # << >>
           /\ LET value == Head(top.values)
                  rest == [bt_stack EXCEPT ![Len(bt_stack)].values = Tail(top.values)]
                  tried == Extend(assignment, top.var, value)
              IN  /\ bt_stack' = rest
                  /\ assignment' = tried
                  /\ IF value \in domains[top.var] /\ is_consistent(tried)
                     THEN pc' = "bt_call"
                     ELSE pc' = "bt_loop"
    /\ UNCHANGED <<auxVars, reqVars, genVars, cspVars, roster, stats, iterations,
                   solution, algorithm>>

\* one pass of "for value in order_domain_values": assign, check, and either
\* call _backtrack or delete the assignment again
BacktrackTryValue ==
    /\ pc = "bt_loop"
    /\ bt_stack # << >>
    /\ LET top == bt_stack[Len(bt_stack)]
       IN  /\ top.values # << >>
           /\ LET value == Head(top.values)
                  rest == [bt_stack EXCEPT ![Len(bt_stack)].values = Tail(top.values)]
                  tried == Extend(assignment, top.var, value)
              IN  /\ bt_stack' = rest
                  /\ IF value \in domains[top.var] /\ is_consistent(tried)
                     THEN /\ assignment' = tried
                          /\ pc' = "bt_call"
                     ELSE /\ assignment' = Remove(tried, top.var)
                          /\ pc' = "bt_loop"
    /\ UNCHANGED <<auxVars, reqVars, genVars, cspVars, roster, stats, iterations,
                   solution, algorithm>>

\* the loop of a _backtrack call has tried every value: return None
BacktrackExhausted ==
    /\ pc = "bt_loop"
    /\ bt_stack # << >>
    /\ bt_stack[Len(bt_stack)].values = << >>
    /\ bt_stack' = SubSeq(bt_stack, 1, Len(bt_stack) - 1)
    /\ pc' = "bt_none"
    /\ UNCHANGED <<auxVars, reqVars, genVars, cspVars, roster, stats, assignment,
                   iterations, solution, algorithm>>

\* a _backtrack call returned None: its caller deletes the value it tried, or
\* solve_with_backtracking returns None
BacktrackReturnNone ==
    /\ pc = "bt_none"
    /\ IF bt_stack = << >>
       THEN /\ solution' = NoSolution
            /\ pc' = "solved"
            /\ UNCHANGED assignment
       ELSE /\ assignment' = Remove(assignment, bt_stack[Len(bt_stack)].var)
            /\ pc' = "bt_loop"
            /\ UNCHANGED solution
    /\ UNCHANGED <<auxVars, reqVars, genVars, cspVars, roster, stats, bt_stack,
                   iterations, algorithm>>

\* the first registered constraint of the given class, or the default
FirstRegistered(name, default) ==
    LET found == SelectSeq(constraints, LAMBDA c : c.name = name)
    IN  IF found = << >> THEN default ELSE found[1].n

\* a check that lets a run grow one date past the limit
check_staff_constraints_late(asg, staff) ==
    ConsecutiveOk(asg, staff, 1, 0,
                  FirstRegistered("max_consecutive_days", DefaultMaxConsecutive) + 1)

\* RosterSolver._check_staff_constraints
check_staff_constraints(asg, staff) ==
    ConsecutiveOk(asg, staff, 1, 0,
                  FirstRegistered("max_consecutive_days", DefaultMaxConsecutive))

\* staff_workloads.sort(): tuples (workload, staff) in ascending order
SortedByWorkload(cands, asg) ==
    LET key == [s \in StaffSet |->
                  Workload(asg, s) * (Len(all_staff) + 1) + s]
    IN  CHOOSE t \in SortOutcomes(cands, key) : TRUE

\* "Assign staff up to minimum required" for one date
RECURSIVE GreedyAssign(_, _, _, _, _, _)
GreedyAssign(asg, order, j, d, have, min_required) ==
    IF j > Len(order) \/ have >= min_required THEN asg
    ELSE LET tried == [asg EXCEPT ![<<order[j], d>>] = 1]
         IN  IF check_staff_constraints(tried, order[j])
             THEN GreedyAssign(tried, order, j + 1, d, have + 1, min_required)
             ELSE GreedyAssign(asg, order, j + 1, d, have, min_required)

\* the loop over self.csp.dates of solve_greedy, from the i-th date on
RECURSIVE GreedyDates(_, _)
GreedyDates(asg, i) ==
    IF i > Len(dates) THEN asg
    ELSE LET d == dates[i]
             current_count == Cardinality({s \in StaffSet : asg[<<s, d>>] = 1})
             min_required == FirstRegistered("minimum_staff", DefaultMinRequired)
             cands == SelectSeq(all_staff, LAMBDA s : 1 \in domains[<<s, d>>])
             order == SortedByWorkload(cands, asg)
         IN  GreedyDates(GreedyAssign(asg, order, 1, d, current_count, min_required),
                         i + 1)

\* RosterSolver.solve_greedy
SolveGreedy ==
    /\ pc = "ready"
    /\ LET result == GreedyDates([c \in Cells |-> 0], 1)
       IN  /\ assignment' = result
           /\ solution' = Some(result)
    /\ algorithm' = "solve_greedy"
    /\ pc' = "solved"
    /\ UNCHANGED <<auxVars, reqVars, genVars, cspVars, roster, stats, bt_stack, iterations>>

\* validate_solution with every reported violation counted against validity
validate_solution_any_violation ==
    /\ solution # NoSolution
    /\ \A i \in DOMAIN get_hard_constraints :
          Check(get_hard_constraints[i], solution.value)
    /\ \A i \in DOMAIN get_soft_constraints :
          Penalty(get_soft_constraints[i], solution.value) <= 0

\* RosterSolver.validate_solution, its is_valid
validate_solution ==
    /\ solution # NoSolution
    /\ \A i \in DOMAIN get_hard_constraints :
          Check(get_hard_constraints[i], solution.value)

\* ------------------------------------------------ format_solution_as_roster
FormatEntry(sol, d) ==
    LET assigned_staff == SelectSeq(all_staff, LAMBDA s : Get(sol, <<s, d>>) = 1)
    IN  [staff |-> assigned_staff,
         specialties |->
             ListOfSet({specialty[assigned_staff[i]] : i \in DOMAIN assigned_staff},
                       set_order),
         available_count |->
             Cardinality({s \in StaffSet : Get(sol, <<s, d>>) >= 0}),
         is_weekend |-> DateFlags(d).is_weekend,
         is_holiday |-> DateFlags(d).is_holiday,
         is_in_lieu |-> DateFlags(d).is_in_lieu]

FormatStats(sol, r) ==
    LET total_days == Len(dates)
        days_understaffed ==
            Cardinality({d \in DOMAIN r : Len(r[d].staff) < FormatMinStaff})
        worked == {s \in StaffSet : \E c \in DOMAIN sol : c[1] = s /\ sol[c] = 1}
    IN  [total_days |-> total_days,
         days_understaffed |-> days_understaffed,
         coverage_percentage |-> <<(total_days - days_understaffed) * 100, total_days>>,
         staff_work_distribution |->
             [s \in worked |-> Cardinality({c \in DOMAIN sol : c[1] = s /\ sol[c] = 1})]]

FormatSolution ==
    /\ pc = "solved"
    /\ solution # NoSolution
    /\ roster' = [d \in Dates |-> FormatEntry(solution.value, d)]
    /\ stats' = FormatStats(solution.value, roster')
    /\ pc' = "done"
    /\ UNCHANGED <<auxVars, reqVars, genVars, cspVars, solverVars>>

\* The leave table has one row per staff member: a single-day leave (no end
\* date, so end = start) on a date of the window or on the day before it, or
\* a leave over the whole window.
LeaveRows(n) ==
    {[start |-> d, end |-> d] : d \in 0..n} \cup {[start |-> 1, end |-> n]}

\* what every request starts from, whichever generator serves it
InitRequest(maxStaff, n) ==
    /\ \E k \in 1..maxStaff :
          /\ all_staff = [i \in 1..k |-> i]
          \* specialty names are interchangeable: the first staff member's is fixed
          /\ specialty \in {f \in [1..k -> Specialties] : f[1] = "Cardiology"}
          /\ \E rows \in [1..k -> LeaveRows(n)] :
                leave_dates = [s \in 1..k |-> LeaveDatesOfRow(rows[s])]
          /\ staff_work_count = [s \in 1..k |-> 0]
    /\ dates = [i \in 1..n |-> i]
    /\ set_order \in SetOrders
    /\ current_date = roster_start
    /\ roster = << >>
    /\ stats = NoStats

\* no CSP is built and no solver runs on the greedy path
NoRun == [staff_work_count |-> << >>, roster |-> << >>, stats |-> NoStats]

\* the handler's form fields / JSON keys that reach the generators
RequiredFields == {"min_staff_per_day", "roster_start", "roster_end",
                   "staff_column", "specialty_column", "date_column"}

NoRoster == [algorithm_used |-> "none"]

\* a generator or solver called directly, outside a request handler
NoRoute ==
    /\ request = [endpoint |-> "none", use_advanced |-> FALSE,
                  algorithm |-> "absent", max_consecutive_days |-> 5,
                  fields |-> RequiredFields]
    /\ generated_roster = NoRoster

\* a window that starts on a Monday and has no public holiday near it
NoCalendar ==
    /\ start_weekday = 0
    /\ sg_holidays = {}

\* a single request, served by an interpreter whose calendar is populated
NoThreads ==
    /\ sg_cache = [years |-> {"year"}, loaded |-> sg_holidays, writer |-> 0]
    /\ threads = << >>

NoPenalty == [total |-> 0, by_constraint |-> << >>]

NoEarlier == [stored |-> FALSE]

NoVerdict == [compared |-> FALSE]

NoPure ==
    /\ penalty = NoPenalty /\ earlier = NoEarlier
    /\ leave_table = << >> /\ verdict = NoVerdict

NoAux == NoRoute /\ NoCalendar /\ NoThreads /\ NoPure

NoCsp ==
    /\ NoAux
    /\ domains = << >>
    /\ constraints = << >>
    /\ assignment = << >>
    /\ bt_stack = << >>
    /\ iterations = 0
    /\ solution = NoSolution
    /\ algorithm = "none"

Init ==
    /\ InitRequest(MaxStaff, NumDates)
    /\ min_staff \in MinStaffValues
    /\ NoCsp
    /\ run2 = NoRun
    /\ pc = "loop"

Next == ProcessDate \/ Finish

Spec == Init /\ [][Next]_vars

\* --------------------------------------------------- the solvers on a CSP
SolverStaff == 2
SolverDates == 2
MaxDaysValues == {1, 2}

Registered(name, type, n) == [name |-> name, type |-> type, n |-> n]

\* the constraint lists a caller registers: MinimumStaff and
\* MaxConsecutiveDays, then optionally MinRestPeriod and SpecialtyCoverage
ConstraintLists(min, nspec) ==
    {<<Registered("minimum_staff", "hard", min),
       Registered("max_consecutive_days", "hard", m)>> \o rest \o cov :
        m \in MaxDaysValues,
        rest \in {<< >>, <<Registered("min_rest_period", "hard", 1)>>},
        cov \in {<< >>, <<Registered("specialty_coverage", "hard", nspec)>>}}

InitSolver ==
    /\ \E n \in 1..SolverDates : InitRequest(SolverStaff, n)
    /\ min_staff \in {1, 2}
    /\ NoAux
    /\ domains = InitialDomains
    /\ constraints \in ConstraintLists(min_staff, Cardinality(unique_specialties))
    /\ assignment = << >>
    /\ bt_stack = << >>
    /\ iterations = 0
    /\ solution = NoSolution
    /\ algorithm = "none"
    /\ run2 = NoRun
    /\ pc = "ready"

NextSolver ==
    \/ SolveWithPulp
    \/ SolveWithBacktracking
    \/ BacktrackEnter
    \/ BacktrackTryValue
    \/ BacktrackExhausted
    \/ BacktrackReturnNone
    \/ SolveGreedy
    \/ FormatSolution
    \/ GenerateRosterLogic
    \/ ProcessDate
    \/ Finish

SpecSolver == InitSolver /\ [][NextSolver]_vars

\* ----------------------------------------------- generate_roster_advanced
\* MinimumStaffConstraint.__init__(self, min_staff, dates, staff) has three
\* required parameters; generate_roster_advanced passes one argument
MinimumStaffInitParams == 3
AdvancedCallArgs == 1
\* rules.get('max_consecutive_days', 5)
RulesDefaultMaxDays == 5

\* the constructor call raises TypeError (missing positional arguments)
ConstructorRaises == AdvancedCallArgs < MinimumStaffInitParams

\* the try block of generate_roster_advanced up to the solver call: the CSP
\* is created and the constraints are constructed and added.  When a
\* constructor raises, "except Exception" logs the error and calls
\* generate_roster_logic; the CSP, local to the call, is dropped.
AdvancedBuildCsp ==
    /\ pc = "advanced"
    /\ IF ConstructorRaises
       THEN /\ pc' = "loop"
            /\ UNCHANGED <<cspVars, algorithm>>
       ELSE /\ domains' = InitialDomains
            /\ constraints' =
                  <<Registered("minimum_staff", "hard", min_staff),
                    Registered("max_consecutive_days", "hard", RulesDefaultMaxDays),
                    Registered("specialty_coverage", "hard",
                               Cardinality(unique_specialties))>>
            /\ algorithm' = "none"
            /\ pc' = "ready"
    /\ UNCHANGED <<auxVars, reqVars, genVars, roster, stats, assignment, bt_stack,
                   iterations, solution>>

InitAdvanced ==
    /\ InitRequest(MaxStaff, NumDates)
    /\ min_staff \in MinStaffValues
    /\ NoCsp
    /\ run2 = NoRun
    /\ pc = "advanced"

\* After a constructor has raised, the solver call and the formatting of its
\* solution (lines 246-256) are not reached; the request continues in
\* generate_roster_logic.
NextAdvanced == AdvancedBuildCsp \/ ProcessDate \/ Finish

SpecAdvanced == InitAdvanced /\ [][NextAdvanced]_vars

\* -------------------------------------------------- the request handlers
MaxRosterPeriod == 90
MinConsecutiveRule == 1
MaxConsecutiveRule == 14
MaxReasonableStaff == 100

\* validate_roster_rules(rules): the validation messages for the rules of
\* the request (roster_start > roster_end is an empty list of dates)
validate_roster_rules ==
    {"Missing required field" : f \in RequiredFields \ request.fields}
    \cup (IF "min_staff_per_day" \in request.fields /\ min_staff < 1
          THEN {"Minimum staff must be at least 1"} ELSE {})
    \cup (IF "min_staff_per_day" \in request.fields /\ min_staff > MaxReasonableStaff
          THEN {"Minimum staff seems unreasonably high"} ELSE {})
    \cup (IF {"roster_start", "roster_end"} \subseteq request.fields /\ Len(dates) = 0
          THEN {"Start date must be before end date"} ELSE {})
    \cup (IF {"roster_start", "roster_end"} \subseteq request.fields
             /\ Len(dates) - 1 > MaxRosterPeriod
          THEN {"Roster period cannot exceed 90 days"} ELSE {})
    \cup (IF \/ request.max_consecutive_days < MinConsecutiveRule
             \/ request.max_consecutive_days > MaxConsecutiveRule
          THEN {"Max consecutive days must be between 1 and 14"} ELSE {})

\* generate_roster (form) and create_roster (API) up to the generator call:
\* the rules are built from the request and passed on as they are; the form
\* handler calls generate_roster_advanced when use_advanced is on, the API
\* handler always does
HandleRequest ==
    /\ pc = "request"
    /\ pc' = IF request.endpoint = "api" \/ request.use_advanced
             THEN "advanced" ELSE "ready"
    /\ UNCHANGED <<auxVars, reqVars, genVars, cspVars, solverVars, roster, stats>>

\* the handler after the generator has returned: the GeneratedRoster row is
\* built, filled with the result and committed
SaveRoster ==
    /\ pc = "done"
    /\ generated_roster' =
          [algorithm_used |->
               IF request.endpoint = "api"
               THEN (IF request.algorithm = "absent" THEN "csp" ELSE request.algorithm)
               ELSE (IF request.use_advanced THEN "csp" ELSE "greedy"),
           roster_data |-> roster,
           stats |-> stats]
    /\ pc' = "saved"
    /\ UNCHANGED <<request, calVars, concVars, pureVars, reqVars, genVars, cspVars,
                   solverVars, roster, stats>>

MinStaffRequestValues == {0, 1, 2}
MaxDaysRequestValues == {5, 15}

InitRoute ==
    /\ \E n \in 0..NumDates : InitRequest(SolverStaff, n)
    /\ min_staff \in MinStaffRequestValues
    /\ \E m \in MaxDaysRequestValues :
          request \in
              {[endpoint |-> "form", use_advanced |-> u, algorithm |-> "absent",
                max_consecutive_days |-> m, fields |-> RequiredFields] : u \in BOOLEAN}
              \cup
              {[endpoint |-> "api", use_advanced |-> FALSE, algorithm |-> a,
                max_consecutive_days |-> m, fields |-> RequiredFields] :
                   a \in {"absent", "greedy"}}
    /\ generated_roster = NoRoster
    /\ NoCalendar
    /\ NoThreads
    /\ NoPure
    /\ domains = << >>
    /\ constraints = << >>
    /\ assignment = << >>
    /\ bt_stack = << >>
    /\ iterations = 0
    /\ solution = NoSolution
    /\ algorithm = "none"
    /\ run2 = NoRun
    /\ pc = "request"

NextRoute ==
    \/ HandleRequest
    \/ AdvancedBuildCsp
    \/ GenerateRosterLogic
    \/ ProcessDate
    \/ Finish
    \/ SaveRoster

SpecRoute == InitRoute /\ [][NextRoute]_vars

\* ------------------------------------------------ the calendar flags
CalendarDates == 3

\* One staff member, a window of CalendarDates dates that can start on any
\* weekday, and any set of public holidays from the day before the window
\* to its end; the roster is made by the greedy generator, or by
\* solve_greedy and format_solution_as_roster.
InitCalendar ==
    /\ InitRequest(1, CalendarDates)
    /\ min_staff = 1
    /\ NoRoute
    /\ start_weekday \in 0..6
    /\ sg_holidays \in SUBSET (0..CalendarDates)
    /\ NoThreads
    /\ NoPure
    /\ domains = InitialDomains
    /\ constraints = <<Registered("minimum_staff", "hard", 1),
                       Registered("max_consecutive_days", "hard", CalendarDates)>>
    /\ assignment = << >>
    /\ bt_stack = << >>
    /\ iterations = 0
    /\ solution = NoSolution
    /\ algorithm = "none"
    /\ run2 = NoRun
    /\ pc = "ready"

NextCalendar ==
    \/ GenerateRosterLogic
    \/ ProcessDate
    \/ Finish
    \/ SolveGreedy
    \/ FormatSolution

SpecCalendar == InitCalendar /\ [][NextCalendar]_vars

\* ------------------------------------------------- concurrent requests
\* sg_holidays = holidays.Singapore() is created once per interpreter, with no
\* years: a lookup of a date whose year the object has not seen first adds
\* the year to the object's years and then fills in the year's holidays.
\* Everything else a request works on (the data frame, leave_dates, the
\* roster, the work counts, the CSP, the solver) is local to its call.
Requests == {1, 2}

\* the flags of date d as a request reads them from the shared object
CachedFlags(d) ==
    LET is_in_lieu == Weekday(d) = 0 /\ (d - 1) \in sg_cache.loaded
    IN  [is_weekend |-> Weekday(d) >= 5,
         is_holiday |-> d \in sg_cache.loaded \/ is_in_lieu,
         is_in_lieu |-> is_in_lieu]

\* request r reaches the holiday check of its current date and finds the
\* year missing: the year is added to the object's years
BeginPopulate(r) ==
    /\ threads[r].pc = "lookup"
    /\ "year" \notin sg_cache.years
    /\ sg_cache' = [sg_cache EXCEPT !.years = @ \cup {"year"}]
    /\ threads' = [threads EXCEPT ![r].pc = "populating"]
    /\ UNCHANGED <<routeVars, calVars, pureVars, reqVars, genVars, cspVars,
                   solverVars, roster, stats, pc>>

\* request r fills in the holidays of the year it has added
Populate(r) ==
    /\ threads[r].pc = "populating"
    /\ sg_cache' = [sg_cache EXCEPT !.loaded = sg_holidays, !.writer = r]
    /\ threads' = [threads EXCEPT ![r].pc = "lookup"]
    /\ UNCHANGED <<routeVars, calVars, pureVars, reqVars, genVars, cspVars,
                   solverVars, roster, stats, pc>>

\* request r checks its current date against the object, stores the entry
\* and moves to the next date
CheckHoliday(r) ==
    /\ threads[r].pc = "lookup"
    /\ "year" \in sg_cache.years
    /\ LET d == threads[r].current_date
           t == threads[r]
       IN  threads' = [threads EXCEPT ![r] =
               [pc |-> IF d + 1 > roster_end THEN "done" ELSE "lookup",
                current_date |-> d + 1,
                roster |-> [e \in (DOMAIN t.roster) \cup {d} |->
                               IF e = d THEN CachedFlags(d) ELSE t.roster[e]],
                read_from |-> t.read_from \cup {sg_cache.writer}]]
    /\ UNCHANGED <<routeVars, calVars, pureVars, sg_cache, reqVars, genVars,
                   cspVars, solverVars, roster, stats, pc>>

InitConcurrent ==
    /\ InitRequest(1, CalendarDates)
    /\ min_staff = 1
    /\ NoRoute
    /\ start_weekday = 0
    /\ sg_holidays \in SUBSET (0..CalendarDates)
    /\ sg_cache = [years |-> {}, loaded |-> {}, writer |-> 0]
    /\ NoPure
    /\ threads = [r \in Requests |->
                    [pc |-> "lookup", current_date |-> roster_start,
                     roster |-> << >>, read_from |-> {}]]
    /\ domains = << >>
    /\ constraints = << >>
    /\ assignment = << >>
    /\ bt_stack = << >>
    /\ iterations = 0
    /\ solution = NoSolution
    /\ algorithm = "none"
    /\ run2 = NoRun
    /\ pc = "concurrent"

NextConcurrent ==
    \E r \in Requests : BeginPopulate(r) \/ Populate(r) \/ CheckHoliday(r)

SpecConcurrent == InitConcurrent /\ [][NextConcurrent]_vars

\* ------------------------------------------- scoring an assignment
CalculatePenalty ==
    /\ pc = "ready"
    /\ penalty' = calculate_penalty(assignment)
    /\ pc' = "scored"
    /\ UNCHANGED <<routeVars, calVars, concVars, earlier, leave_table, verdict, reqVars,
                   genVars, cspVars, solverVars, roster, stats>>

WeightValues == {0, 3}
MaxVarianceValues == {0, 2}
AversionValues == {0, 10}
HistoricalValues == {0, 2}

\* the preferred teammates of s: nobody, the next staff member, or everyone
TeammateLists(s) ==
    {<< >>, <<(s % Len(all_staff)) + 1>>, all_staff}

\* one soft constraint of each class, and all four together
SoftConstraintLists ==
    LET fair == {[name |-> "fair_workload", type |-> "soft", weight |-> w,
                  max_variance |-> m] : w \in WeightValues, m \in MaxVarianceValues}
        weekend == {[name |-> "weekend_preference", type |-> "soft", weight |-> w,
                     preferences |-> p] :
                        w \in WeightValues, p \in [StaffSet -> AversionValues]}
        holiday == {[name |-> "holiday_distribution", type |-> "soft", weight |-> w,
                     holidays |-> sg_holidays \cap Dates, historical_counts |-> h] :
                        w \in WeightValues, h \in [StaffSet -> HistoricalValues]}
        team == {[name |-> "team_preference", type |-> "soft", weight |-> w,
                  team_preferences |-> t] :
                     w \in WeightValues,
                     t \in {f \in [StaffSet -> UNION {TeammateLists(s) : s \in StaffSet}] :
                               \A s \in StaffSet : f[s] \in TeammateLists(s)}}
    IN  {<<c>> : c \in fair \cup weekend \cup holiday \cup team}

\* assignments of the first k <= m variables in staff-major order, with any
\* values
PrefixAssignmentsUpTo(m) ==
    LET all == get_unassigned_variables(<< >>)
    IN  UNION {[{all[i] : i \in 1..k} -> {0, 1}] : k \in 0..Min2(m, Len(all))}

PrefixAssignments == PrefixAssignmentsUpTo(Len(all_staff) * Len(dates))

\* A CSP over staff without leave in the window, a window that starts on a Saturday with a
\* public holiday on its first date, one registered soft constraint and an
\* assignment to score.
InitPenalty ==
    /\ \E n \in 1..SolverDates : InitRequest(SolverStaff, n)
    /\ \A s \in StaffSet : leave_dates[s] \cap Dates = {}
    /\ set_order[1] = "Cardiology"
    /\ \A s \in StaffSet : specialty[s] = "Cardiology"
    /\ min_staff = 1
    /\ NoRoute
    /\ start_weekday = 5
    /\ sg_holidays = {1}
    /\ NoThreads
    /\ NoPure
    /\ domains = InitialDomains
    /\ constraints \in SoftConstraintLists
    /\ assignment \in PrefixAssignments
    /\ bt_stack = << >>
    /\ iterations = 0
    /\ solution = NoSolution
    /\ algorithm = "none"
    /\ run2 = NoRun
    /\ pc = "ready"

NextPenalty == CalculatePenalty

SpecPenalty == InitPenalty /\ [][NextPenalty]_vars

\* ------------------------------ CSPs that differ in their soft constraints
\* RosterSolver.validate_solution: (is_valid, violations); a soft constraint
\* is listed when its penalty is positive
validate_solution_report ==
    [is_valid |-> validate_solution,
     violations |->
        IF solution = NoSolution THEN {"No solution found"}
        ELSE {get_hard_constraints[i].name :
                 i \in {j \in DOMAIN get_hard_constraints :
                           ~Check(get_hard_constraints[j], solution.value)}}
             \cup {get_soft_constraints[i].name :
                      i \in {j \in DOMAIN get_soft_constraints :
                                Penalty(get_soft_constraints[j], solution.value) > 0}}]

\* the soft constraints a caller may register: none, a workload constraint
\* with or without weight, or weekend and team preferences
SoftRegistrations ==
    {<< >>,
     <<[name |-> "fair_workload", type |-> "soft", weight |-> 3, max_variance |-> 0]>>,
     <<[name |-> "fair_workload", type |-> "soft", weight |-> 0, max_variance |-> 0]>>,
     <<[name |-> "weekend_preference", type |-> "soft", weight |-> 3,
        preferences |-> [s \in StaffSet |-> 10]],
       [name |-> "team_preference", type |-> "soft", weight |-> 3,
        team_preferences |-> [s \in StaffSet |-> all_staff]]>>}

MaxProbeCells == 3

\* the assignments is_consistent is asked about
ProbeAssignments == PrefixAssignmentsUpTo(MaxProbeCells)

HardRegistrations(min) ==
    {<<Registered("minimum_staff", "hard", min),
       Registered("max_consecutive_days", "hard", m)>> : m \in MaxDaysValues}

\* a second CSP over the same staff, dates, leave and hard constraints, with
\* other soft constraints registered; the first solver's results are kept
RegisterOtherSoftConstraints ==
    /\ pc = "solved"
    /\ ~earlier.stored
    /\ \E soft \in SoftRegistrations :
          /\ soft # get_soft_constraints
          /\ constraints' = soft \o get_hard_constraints
    /\ earlier' = [stored |-> TRUE,
                   solution |-> solution,
                   report |-> validate_solution_report,
                   soft |-> get_soft_constraints]
    /\ assignment' = << >>
    /\ bt_stack' = << >>
    /\ iterations' = 0
    /\ solution' = NoSolution
    /\ algorithm' = "none"
    /\ pc' = "ready"
    /\ UNCHANGED <<routeVars, calVars, concVars, penalty, leave_table, verdict, reqVars,
                   genVars, domains, roster, stats>>

InitSoft ==
    /\ \E n \in 1..SolverDates : InitRequest(SolverStaff, n)
    /\ min_staff \in {1, 2}
    /\ NoRoute
    /\ start_weekday = 5
    /\ sg_holidays = {1}
    /\ NoThreads
    /\ NoPure
    /\ domains = InitialDomains
    /\ constraints \in HardRegistrations(min_staff)
    /\ assignment = << >>
    /\ bt_stack = << >>
    /\ iterations = 0
    /\ solution = NoSolution
    /\ algorithm = "none"
    /\ run2 = NoRun
    /\ pc = "ready"

NextSoft ==
    \/ SolveWithBacktracking
    \/ BacktrackEnter
    \/ BacktrackTryValue
    \/ BacktrackExhausted
    \/ BacktrackReturnNone
    \/ RegisterOtherSoftConstraints

SpecSoft == InitSoft /\ [][NextSoft]_vars

\* ------------------------------------------------ the leave table's rows
\* the end date column read whether or not the row has an end date
RowEndOpen(row) == row.end

\* a row: [staff, start, has_end, end]; without an end date the leave is one day
RowEnd(row) == IF row.has_end THEN row.end ELSE row.start

RowDates(row) == {d \in row.start..RowEnd(row) : TRUE}

RECURSIVE Unique(_)
\* df[staff_col].unique().tolist(): the members in order of first appearance
Unique(q) ==
    IF q = << >> THEN << >>
    ELSE LET front == Unique(SubSeq(q, 1, Len(q) - 1))
         IN  IF q[Len(q)] \in Range(front) THEN front
             ELSE Append(front, q[Len(q)])

StaffOfTable(t) == Unique([i \in DOMAIN t |-> t[i].staff])

\* leave_dates of generate_roster_logic: staff -> the dates of the member's rows
LeaveDatesOfTable(t) ==
    [s \in Range(StaffOfTable(t)) |->
        UNION {RowDates(t[i]) : i \in {j \in DOMAIN t : t[j].staff = s}}]

\* extract_leave_schedule: date -> staff on leave
extract_leave_schedule(t) ==
    [d \in UNION {RowDates(t[i]) : i \in DOMAIN t} |->
        {t[i].staff : i \in {j \in DOMAIN t : d \in RowDates(t[j])}}]

\* RosterCSP.__init__: every domain is {0, 1}
FreshDomains(staff) == [c \in {<<s, d>> : s \in Range(staff), d \in Dates} |-> {0, 1}]

\* RosterCSP.initialize_domains
initialize_domains(doms, leave_schedule) ==
    [c \in DOMAIN doms |->
        IF c[2] \in DOMAIN leave_schedule /\ c[1] \in leave_schedule[c[2]]
        THEN {0}
        ELSE doms[c]]

Reverse(q) == [i \in DOMAIN q |-> q[Len(q) + 1 - i]]

\* the uploads that carry the same leave as table t: t itself, t with one row
\* repeated, t with a one-day row inside one of its rows added, t with its
\* rows in reverse order
TableVariants(t) ==
    {t, Reverse(t)}
    \cup {Append(t, t[i]) : i \in DOMAIN t}
    \cup {Append(t, [t[i] EXCEPT !.has_end = FALSE]) : i \in DOMAIN t}

\* the upload is read and the CSP's domains are initialised, once or twice
ReadTable(t, twice) ==
    LET staff == StaffOfTable(t)
        once == initialize_domains(FreshDomains(staff), extract_leave_schedule(t))
    IN  /\ leave_table' = t
        /\ all_staff' = staff
        /\ leave_dates' = LeaveDatesOfTable(t)
        /\ staff_work_count' = [s \in Range(staff) |-> 0]
        /\ domains' = IF twice
                      THEN initialize_domains(once, extract_leave_schedule(t))
                      ELSE once

\* a second request over the same window and rules, its upload a variant of
\* the first one's; the first request's results are kept
UploadVariant ==
    /\ pc = "done"
    /\ ~earlier.stored
    /\ \E t \in TableVariants(leave_table), twice \in BOOLEAN :
          /\ t # leave_table \/ twice
          /\ ReadTable(t, twice)
    /\ earlier' = [stored |-> TRUE, leave_table |-> leave_table,
                   all_staff |-> all_staff, domains |-> domains, roster |-> roster]
    /\ current_date' = roster_start
    /\ roster' = << >>
    /\ stats' = NoStats
    /\ algorithm' = "none"
    /\ pc' = "ready"
    /\ UNCHANGED <<routeVars, calVars, concVars, penalty, verdict, specialty, dates,
                   min_staff, set_order, run2, constraints, assignment, bt_stack,
                   iterations, solution>>

MaxRows == 2

\* tables of one row per staff member: a one-day leave without an end date,
\* on a date of the window or the day before it, or a leave over the window
InitLeave ==
    /\ \E k \in 1..MaxRows, n \in 1..NumDates :
          /\ dates = [i \in 1..n |-> i]
          /\ leave_table \in
                [1..k -> UNION {{[staff |-> s, start |-> d, has_end |-> FALSE, end |-> n] :
                                    d \in 0..n}
                                \cup {[staff |-> s, start |-> 1, has_end |-> TRUE, end |-> n]} :
                                s \in 1..k}]
          /\ \A i \in 1..k : leave_table[i].staff = i
          /\ specialty \in {f \in [1..k -> Specialties] : f[1] = "Cardiology"}
    /\ all_staff = StaffOfTable(leave_table)
    /\ leave_dates = LeaveDatesOfTable(leave_table)
    /\ staff_work_count = [s \in StaffSet |-> 0]
    /\ domains = initialize_domains(FreshDomains(all_staff),
                                    extract_leave_schedule(leave_table))
    /\ min_staff \in MinStaffValues
    /\ set_order \in SetOrders
    /\ current_date = roster_start
    /\ roster = << >>
    /\ stats = NoStats
    /\ NoRoute
    /\ NoCalendar
    /\ NoThreads
    /\ penalty = NoPenalty
    /\ earlier = NoEarlier
    /\ verdict = NoVerdict
    /\ constraints = << >>
    /\ assignment = << >>
    /\ bt_stack = << >>
    /\ iterations = 0
    /\ solution = NoSolution
    /\ algorithm = "none"
    /\ run2 = NoRun
    /\ pc = "ready"

NextLeave == GenerateRosterLogic \/ ProcessDate \/ Finish \/ UploadVariant

SpecLeave == InitLeave /\ [][NextLeave]_vars

\* ---------------------- MaxConsecutiveDays: its check and its inequalities
\* the registered MaxConsecutiveDays constraint is translated for the model
\* and checked on the same 0/1 matrix
CompareMaxConsecutive ==
    /\ pc = "ready"
    /\ \E i \in DOMAIN constraints :
          /\ constraints[i].name = "max_consecutive_days"
          /\ verdict' = [compared |-> TRUE,
                         max_days |-> constraints[i].n,
                         ilp |-> AddHardConstraintToModel(constraints[i], assignment),
                         check |-> MaxConsecutiveDaysCheck(constraints[i].n, assignment)]
    /\ pc' = "compared"
    /\ UNCHANGED <<routeVars, calVars, concVars, penalty, earlier, leave_table,
                   reqVars, genVars, cspVars, solverVars, roster, stats>>

\* a CSP with MinimumStaff and MaxConsecutiveDays registered and a 0/1 matrix
\* over staff x dates, its unavailable cells 0
InitIlp ==
    /\ \E n \in 1..SolverDates : InitRequest(SolverStaff, n)
    /\ \A s \in StaffSet : specialty[s] = "Cardiology"
    /\ set_order[1] = "Cardiology"
    /\ min_staff = 1
    /\ NoAux
    /\ domains = InitialDomains
    /\ constraints \in HardRegistrations(min_staff)
    /\ assignment \in DecisionValues
    /\ bt_stack = << >>
    /\ iterations = 0
    /\ solution = NoSolution
    /\ algorithm = "none"
    /\ run2 = NoRun
    /\ pc = "ready"

NextIlp == CompareMaxConsecutive

SpecIlp == InitIlp /\ [][NextIlp]_vars

\* ------------------------------------------- backtracking into dead ends
UndoStaff == 3
UndoDates == 1

\* CSPs with MinimumStaff 1, MaxConsecutiveDays and a SpecialtyCoverage that
\* asks for every specialty
InitUndo ==
    /\ \E n \in 1..UndoDates : InitRequest(UndoStaff, n)
    /\ min_staff = 1
    /\ NoAux
    /\ domains = InitialDomains
    /\ constraints \in
          {h \o <<Registered("specialty_coverage", "hard",
                             Cardinality(unique_specialties))>> :
              h \in HardRegistrations(min_staff)}
    /\ assignment = << >>
    /\ bt_stack = << >>
    /\ iterations = 0
    /\ solution = NoSolution
    /\ algorithm = "none"
    /\ run2 = NoRun
    /\ pc = "ready"

NextUndo ==
    \/ SolveWithBacktracking
    \/ BacktrackEnter
    \/ BacktrackTryValue
    \/ BacktrackExhausted
    \/ BacktrackReturnNone

SpecUndo == InitUndo /\ [][NextUndo]_vars

\* ------------------------------------- two runs of generate_roster_logic
\* Both runs execute the same loop iteration, each on its own work counts
\* and roster; the second run may be in another interpreter process, with
\* its own set iteration order.
ProcessDateTwice ==
    /\ pc = "loop"
    /\ current_date <= roster_end
    /\ \E choice \in DaySelections(current_date, staff_work_count) :
          /\ roster' = StoreEntry(roster, current_date, choice, set_order)
          /\ staff_work_count' = UpdateWorkCounts(staff_work_count, choice.staff)
    /\ \E choice \in DaySelections(current_date, run2.staff_work_count) :
          run2' = [run2 EXCEPT
                     !.roster = StoreEntry(run2.roster, current_date, choice,
                                          run2.set_order),
                     !.staff_work_count =
                         UpdateWorkCounts(run2.staff_work_count, choice.staff)]
    /\ current_date' = current_date + 1
    /\ UNCHANGED <<auxVars, reqVars, cspVars, solverVars, stats, pc>>

FinishTwice ==
    /\ pc = "loop"
    /\ current_date > roster_end
    /\ stats' = CoverageStats(roster, staff_work_count, min_staff)
    /\ run2' = [run2 EXCEPT
                  !.stats = CoverageStats(run2.roster, run2.staff_work_count, min_staff)]
    /\ pc' = "done"
    /\ UNCHANGED <<auxVars, reqVars, current_date, staff_work_count, cspVars, solverVars, roster>>

InitTwoRuns ==
    /\ InitRequest(MaxStaff, NumDates)
    /\ min_staff \in MinStaffValues
    /\ NoCsp
    /\ \E order \in SetOrders :
          run2 = [staff_work_count |-> staff_work_count, roster |-> << >>,
                  stats |-> NoStats, set_order |-> order]
    /\ pc = "loop"

NextTwoRuns == ProcessDateTwice \/ FinishTwice

SpecTwoRuns == InitTwoRuns /\ [][NextTwoRuns]_vars

\* ================================================================ claims
AvailableOn(d) == {s \in StaffSet : d \notin leave_dates[s]}

SelectedOn(d) == Range(roster[d].staff)

\* C1: no solver assigns a staff member on a date of one of the member's
\* leave intervals: the member is absent from that date's staff list, and the
\* returned assignment has value 0 there.
C1_NoStaffOnLeaveAssigned ==
    /\ \A d \in DOMAIN roster : \A s \in StaffSet :
          d \in leave_dates[s] => s \notin SelectedOn(d)
    /\ ~solution.is_none =>
          \A c \in Cells : c[2] \in leave_dates[c[1]] =>
              (c \in DOMAIN solution.value /\ solution.value[c] = 0)

C1_Witness ==
    /\ pc = "done"
    /\ algorithm = "pulp"
    /\ \E d \in Dates : \E s \in StaffSet :
          d \in leave_dates[s] /\ roster[d].staff # << >>

\* C2: every solution solve_with_pulp or solve_with_backtracking returns is a
\* total 0/1 mapping over staff x dates that satisfies every registered hard
\* constraint.
C2_ReturnedSolutionsConsistent ==
    (algorithm \in {"pulp", "backtracking"} /\ ~solution.is_none) =>
        /\ DOMAIN solution.value = Cells
        /\ \A c \in Cells : solution.value[c] \in {0, 1}
        /\ is_consistent(solution.value)
        /\ validate_solution

\* x has staff member s assigned on more than max consecutive dates
HasLongRun(x, s, max) ==
    \E i \in 1..(Len(dates) - max) :
        \A j \in i..(i + max) : x[<<s, dates[j]>>] = 1

RegisteredMaxDays ==
    {constraints[i].n : i \in {j \in DOMAIN constraints :
                                 constraints[j].name = "max_consecutive_days"}}

C4_UnderstaffedCountsMinStaff ==
    pc = "done" =>
        LET under == Cardinality({d \in Dates : Len(roster[d].staff) < min_staff})
        IN  /\ stats.days_understaffed = under
            /\ stats.coverage_percentage =
                  <<(Cardinality(Dates) - under) * 100, Cardinality(Dates)>>

\* C5: in every returned roster staff_work_distribution maps every staff
\* member to the number of dates the member is assigned on, 0 included.
C5_WorkDistributionCoversAllStaff ==
    pc = "done" =>
        stats.staff_work_distribution =
            [s \in StaffSet |-> Cardinality({d \in Dates : s \in SelectedOn(d)})]

C7_GreedyNeverFails ==
    /\ DOMAIN roster = roster_start..(current_date - 1)
    /\ pc = "done" => (DOMAIN roster = Dates /\ stats.total_days = Cardinality(Dates))
    /\ \A d \in DOMAIN roster :
          /\ Len(roster[d].staff) = Min2(min_staff, Cardinality(AvailableOn(d)))
          /\ Cardinality(SelectedOn(d)) = Len(roster[d].staff)
          /\ SelectedOn(d) \subseteq AvailableOn(d)
          /\ Len(roster[d].staff) < min_staff =>
                Cardinality(AvailableOn(d)) < min_staff
    /\ (pc = "loop" /\ current_date <= roster_end) =>
          DaySelections(current_date, staff_work_count) # {}

C7_Witness ==
    /\ pc = "done"
    /\ \E d \in Dates : Len(roster[d].staff) < min_staff
    /\ \E d \in Dates : /\ Len(roster[d].staff) = min_staff
                        /\ Cardinality(AvailableOn(d)) > min_staff

\* the work count of s when date d was processed
WorkBefore(s, d) ==
    Cardinality({e \in DOMAIN roster : e < d /\ s \in SelectedOn(e)})

\* s is ahead of t in ascending order of work count before d, ties in staff order
Ahead(s, t, d) ==
    \/ WorkBefore(s, d) < WorkBefore(t, d)
    \/ WorkBefore(s, d) = WorkBefore(t, d) /\ Pos(all_staff, s) < Pos(all_staff, t)

AvailableSpecialties(d) == {specialty[s] : s \in AvailableOn(d)}

\* the available member of specialty sp with the lowest work count before d
Representative(sp, d) ==
    CHOOSE s \in AvailableOn(d) :
        /\ specialty[s] = sp
        /\ \A t \in AvailableOn(d) : (specialty[t] = sp /\ t # s) => Ahead(s, t, d)

\* A, B in Cardiology and C in Surgery, nobody on leave on day one, two per day
ThreeStaffScenario ==
    /\ all_staff = <<1, 2, 3>>
    /\ specialty = <<"Cardiology", "Cardiology", "Surgery">>
    /\ \A s \in StaffSet : 1 \notin leave_dates[s]
    /\ min_staff = 2

\* C8: on a date with at least as many available staff as distinct
\* specialties, and min_staff_per_day at least the number of specialties with
\* an available member, the greedy selection holds the lowest-workload member
\* (ties: earliest in staff order) of every specialty with an available
\* member, and every other selected member is ahead, by workload, of every
\* available member left out; in the three-staff scenario day one selects
\* {A, C}.
C8_OnePerSpecialtyFirst ==
    /\ \A d \in DOMAIN roster :
          (/\ Cardinality(AvailableOn(d)) >= Cardinality(all_specialties)
           /\ min_staff >= Cardinality(AvailableSpecialties(d))) =>
              LET reps == {Representative(sp, d) : sp \in AvailableSpecialties(d)}
              IN  /\ reps \subseteq SelectedOn(d)
                  /\ \A s \in SelectedOn(d) \ reps :
                        \A t \in AvailableOn(d) \ SelectedOn(d) : Ahead(s, t, d)
    /\ (ThreeStaffScenario /\ 1 \in DOMAIN roster) => SelectedOn(1) = {1, 3}

C8_Witness ==
    /\ ThreeStaffScenario
    /\ 1 \in DOMAIN roster
    /\ SelectedOn(1) = {1, 3}
    /\ pc = "done"

\* some total assignment within the domains satisfies every hard constraint
Solvable == \E x \in DecisionValues : is_consistent(x)

\* C9: when no total assignment within the domains satisfies the hard
\* constraints, solve_with_backtracking and solve_with_pulp return None.
C9_InfeasibleReportsNone ==
    (pc = "solved" /\ algorithm \in {"pulp", "backtracking"} /\ ~Solvable) =>
        solution.is_none

\* C10: in generate_roster_advanced the greedy generator runs only after
\* solve_with_pulp has been tried and has returned no solution.
C10_GreedyOnlyAfterIlpFailed ==
    pc \in {"loop", "done"} => (algorithm = "pulp" /\ solution.is_none)

\* the strategy whose assignment is in the returned roster: a solver's, when
\* its solution was formatted, and the greedy generator's otherwise
RosterProducer == IF solution.is_none THEN "greedy" ELSE algorithm

\* C11: the algorithm_used stored with a generated roster names the strategy
\* that produced the roster: "greedy" whenever the roster came from the greedy
\* generator, fallback from an advanced request included.
C11_AlgorithmUsedNamesProducer ==
    pc = "saved" => generated_roster.algorithm_used = RosterProducer

\* C14: a request whose rules validate_roster_rules rejects is turned down
\* before any generator or solver step: nothing is selected for any date and
\* no roster is stored.
C14_InvalidRulesRejected ==
    validate_roster_rules # {} =>
        /\ pc \in {"request", "rejected"}
        /\ roster = << >>
        /\ generated_roster = NoRoster

\* d is a Monday and the day before it is a public holiday
MondayAfterHolidaySunday(d) ==
    /\ (start_weekday + d - 1) % 7 = 0
    /\ (d - 1) \in sg_holidays

\* C12: a roster date is flagged is_in_lieu exactly when it is a Monday whose
\* preceding Sunday is a public holiday, whether or not that Sunday is in the
\* window; such a date is flagged is_holiday too, so is_in_lieu implies
\* is_holiday.  This holds for the greedy generator and for
\* format_solution_as_roster.
C12_InLieuMondayAfterSunday ==
    \A d \in DOMAIN roster :
        /\ roster[d].is_in_lieu = MondayAfterHolidaySunday(d)
        /\ MondayAfterHolidaySunday(d) => roster[d].is_holiday
        /\ roster[d].is_in_lieu => roster[d].is_holiday

\* a formatted roster with an in-lieu Monday that is not itself in the
\* calendar, after a Sunday inside the window
C12_Witness ==
    /\ pc = "done"
    /\ algorithm = "solve_greedy"
    /\ \E d \in Dates :
          /\ d > 1
          /\ roster[d].is_in_lieu
          /\ d \notin sg_holidays
          /\ roster[d - 1].is_holiday

\* h is a public holiday on a non-working day: a Saturday, or a Sunday whose
\* Monday is a public holiday as well
HolidayOnNonWorkingDay(h) ==
    /\ h \in sg_holidays
    /\ \/ (start_weekday + h - 1) % 7 = 5
       \/ (start_weekday + h - 1) % 7 = 6 /\ (h + 1) \in sg_holidays

WorkingDay(d) == (start_weekday + d - 1) % 7 < 5 /\ d \notin sg_holidays

\* C13: for a public holiday on a non-working day, the first later date that
\* is neither a weekend day nor a public holiday is flagged is_in_lieu.
C13_InLieuOnNextWorkingDay ==
    pc = "done" =>
        \A h \in sg_holidays : \A w \in Dates :
            (/\ HolidayOnNonWorkingDay(h)
             /\ w > h
             /\ WorkingDay(w)
             /\ \A d \in (h + 1)..(w - 1) : ~WorkingDay(d)) =>
                roster[w].is_in_lieu

\* iteration cutoffs a caller could supply
CutoffValues == {1, 2}

\* C15: solve_with_backtracking honours a cutoff on its iteration count: the
\* cutoff is checked at every node, so once the count has exceeded the cutoff
\* no further node is entered.
C15_CutoffStopsSearch ==
    \A cutoff \in CutoffValues :
        algorithm = "backtracking" => iterations <= cutoff + 1

\* C16: two interleaved requests share no mutable state: every entry a
\* request has written equals the one the request writes when it runs alone,
\* and no request reads holiday lookup state that the other request wrote.
C16_RequestsShareNothing ==
    \A r \in DOMAIN threads :
        /\ \A d \in DOMAIN threads[r].roster : threads[r].roster[d] = DateFlags(d)
        /\ threads[r].read_from \subseteq {0, r}

\* C18: with non-negative weights, weekend aversions in 0..10 and historical
\* holiday counts >= 0, the penalty of every soft constraint on every partial
\* or total assignment is >= 0, and so is calculate_penalty.
C18_PenaltiesNonNegative ==
    pc = "scored" =>
        /\ penalty.total >= 0
        /\ \A i \in DOMAIN penalty.by_constraint : penalty.by_constraint[i] >= 0

\* a partial assignment with a positive team-preference penalty
C18_Witness ==
    /\ pc = "scored"
    /\ DOMAIN assignment # Cells
    /\ constraints[1].name = "team_preference"
    /\ penalty.total > 0

\* C20: in every roster entry, of the greedy generator and of
\* format_solution_as_roster alike, available_count is the number of staff
\* members who are not on leave that day.
C20_AvailableCountIsStaffNotOnLeave ==
    pc = "done" =>
        \A d \in DOMAIN roster :
            roster[d].available_count = Cardinality(AvailableOn(d))

\* C19: soft constraints never affect acceptance. For two CSPs that differ
\* only in their registered soft constraints or soft weights, is_consistent
\* answers the same on every assignment, solve_with_backtracking returns the
\* same result, and validate_solution reports the same validity for it.
C19_SoftConstraintsNeverAffectAcceptance ==
    /\ [](pc = "solved" /\ earlier.stored =>
             /\ solution = earlier.solution
             /\ validate_solution = earlier.report.is_valid)
    /\ [][RegisterOtherSoftConstraints =>
             \A asg \in ProbeAssignments :
                is_consistent(asg)' = is_consistent(asg)]_vars

\* both solvers returned a roster, and only one of them reports penalties
C19_Witness ==
    /\ pc = "solved"
    /\ earlier.stored
    /\ ~solution.is_none
    /\ validate_solution
    /\ earlier.report.violations # validate_solution_report.violations

\* staff s has a leave row that covers date d, its end the start when the row
\* has no end date
CoveredByRow(t, s, d) ==
    \E i \in DOMAIN t :
        /\ t[i].staff = s
        /\ t[i].start <= d
        /\ d <= (IF t[i].has_end THEN t[i].end ELSE t[i].start)

AvailabilityIsComplement ==
    \A s \in StaffSet, d \in Dates :
        /\ (s \notin Range(available_staff(d))) <=> CoveredByRow(leave_table, s, d)
        /\ (domains[<<s, d>>] = {0}) <=> CoveredByRow(leave_table, s, d)
        /\ domains[<<s, d>>] \in {{0}, {0, 1}}

\* C17 as stated: availability is the complement of the union of the
\* inclusive leave ranges, and duplicated, overlapping or reordered rows, and
\* initialize_domains applied twice, give the same domains and the same
\* roster as the de-duplicated rows applied once.
C17_LeaveRowsAsStated ==
    /\ AvailabilityIsComplement
    /\ pc = "done" /\ earlier.stored =>
          /\ domains = earlier.domains
          /\ roster = earlier.roster

\* C17 amended: the same, but the rosters agree when the staff members first
\* appear in the two tables in the same order.
C17_LeaveRowsAmended ==
    /\ AvailabilityIsComplement
    /\ pc = "done" /\ earlier.stored =>
          /\ domains = earlier.domains
          /\ all_staff = earlier.all_staff => roster = earlier.roster

\* a table with an added overlapping row gave the roster of the first table
C17_Witness ==
    /\ pc = "done"
    /\ earlier.stored
    /\ Len(leave_table) > Len(earlier.leave_table)
    /\ leave_table[Len(leave_table)] \notin Range(earlier.leave_table)
    /\ \E c \in DOMAIN domains : domains[c] = {0}
    /\ \E d \in DOMAIN roster : roster[d].staff # << >>
    /\ roster = earlier.roster

\* C21: solve_with_backtracking reports failure only when the search space is
\* exhausted: if some total assignment within the domains satisfies every
\* hard constraint, the solver returns an assignment and not None.
C21_BacktrackingFindsExistingSolution ==
    (pc = "solved" /\ algorithm = "backtracking" /\ Solvable) =>
        ~solution.is_none

\* total assignment x agrees with partial assignment p where p is defined
Extends(x, p) == \A c \in DOMAIN p : c \in DOMAIN x /\ x[c] = p[c]

\* C22: is_consistent treats a hard constraint whose variables are not all
\* assigned as provisionally satisfied: a partial assignment that can be
\* extended to a consistent total assignment is never reported inconsistent.
C22_ExtensiblePartialIsConsistent ==
    pc = "ready" =>
        \A p \in PrefixAssignments :
            (\E x \in DecisionValues : Extends(x, p) /\ is_consistent(x))
                => is_consistent(p)

\* the specialties of the staff assigned on date d in x
CoveredSpecialties(x, d) == {specialty[s] : s \in {t \in StaffSet : x[<<t, d>>] = 1}}

\* C23: on a total assignment SpecialtyCoverageConstraint.check is true iff on
\* every date the assigned staff cover at least min(target, number of
\* specialties with a member not on leave that date) specialties.
C23_CoverageCappedByAvailableSpecialties ==
    pc = "ready" =>
        \A i \in DOMAIN constraints : constraints[i].name = "specialty_coverage" =>
            \A x \in DecisionValues :
                SpecialtyCoverageCheck(constraints[i].n, x)
                <=> \A d \in Dates :
                       Cardinality(CoveredSpecialties(x, d))
                       >= Min2(constraints[i].n, Cardinality(AvailableSpecialties(d)))

\* C24: the inequalities that translate MaxConsecutiveDays for the ILP hold of
\* a 0/1 matrix over staff x dates, unavailable cells 0, iff
\* MaxConsecutiveDaysConstraint.check is true of it, also when there are at
\* most max dates.
C24_TranslationEquivalentToCheck ==
    pc = "compared" => (verdict.ilp <=> verdict.check)

\* a staff member works max + 1 dates in a row: both reject the matrix
C24_Witness ==
    /\ pc = "compared"
    /\ Len(dates) > verdict.max_days
    /\ ~verdict.ilp
    /\ ~verdict.check
    /\ \E s \in StaffSet : leave_dates[s] \cap Dates # {}

\* the variables solve_with_backtracking fixes to 0 before the search
PreFixed == [c \in {v \in Cells : domains[v] = {0}} |-> 0]

\* C25: whenever a call of _backtrack returns None the assignment is what it
\* was when the call started, and after a failed solve_with_backtracking the
\* assignment holds only the variables fixed to 0 for leave days.
C25_BacktrackingUndoesOnFailure ==
    /\ [][BacktrackExhausted => assignment = bt_stack[Len(bt_stack)].entry]_vars
    /\ [][(BacktrackEnter /\ pc' = "bt_none") => assignment' = assignment]_vars
    /\ [](pc = "solved" /\ algorithm = "backtracking" /\ solution.is_none
            => assignment = PreFixed)

\* a nested call has returned None after both of its values were rejected
C25_Witness ==
    /\ pc = "bt_none"
    /\ Len(bt_stack) >= 1
    /\ assignment # PreFixed

C27_SpecialtiesOfSelectedStaff ==
    \A d \in DOMAIN roster :
        /\ Range(roster[d].specialties) = {specialty[s] : s \in SelectedOn(d)}
        /\ Len(roster[d].specialties) = Cardinality(Range(roster[d].specialties))

\* a date on which the fill-by-workload step added a member to one pick per
\* specialty
C27_Witness ==
    /\ pc = "done"
    /\ \E d \in DOMAIN roster :
          /\ Len(roster[d].specialties) = 2
          /\ Len(roster[d].staff) = 3

\* ----------------- the greedy generator with more specialties than staff on duty
ShortfallSpecialties == <<"Cardiology", "Surgery", "Oncology">>

\* staff members take the three specialties in turn
InitShortfall ==
    /\ \E k \in 1..MaxStaff, n \in 1..NumDates :
          /\ all_staff = [i \in 1..k |-> i]
          /\ specialty = [i \in 1..k |-> ShortfallSpecialties[((i - 1) % 3) + 1]]
          /\ \E rows \in [1..k -> LeaveRows(n)] :
                leave_dates = [s \in 1..k |-> LeaveDatesOfRow(rows[s])]
          /\ staff_work_count = [s \in 1..k |-> 0]
          /\ dates = [i \in 1..n |-> i]
    /\ set_order = ShortfallSpecialties
    /\ current_date = roster_start
    /\ roster = << >>
    /\ stats = NoStats
    /\ min_staff \in MinStaffValues
    /\ NoCsp
    /\ run2 = NoRun
    /\ pc = "loop"

SpecShortfall == InitShortfall /\ [][Next]_vars

\* the dates on which s has been selected so far
DaysWorked(s) == Cardinality({d \in DOMAIN roster : s \in SelectedOn(d)})

\* C28: on a date with fewer available staff than distinct specialties the
\* selected staff are the first min_staff_per_day available staff in ascending
\* order of cumulative work count, ties in staff order, whatever their
\* specialties; the work counts are brought up to date after every date.
C28_ShortfallSelectsByWorkload ==
    /\ \A s \in StaffSet : staff_work_count[s] = DaysWorked(s)
    /\ \A d \in DOMAIN roster :
          Cardinality(AvailableOn(d)) < Cardinality(all_specialties) =>
             LET sel == roster[d].staff
             IN  /\ Len(sel) = Min2(min_staff, Cardinality(AvailableOn(d)))
                 /\ Range(sel) \subseteq AvailableOn(d)
                 /\ \A i, j \in DOMAIN sel : i < j => Ahead(sel[i], sel[j], d)
                 /\ \A s \in Range(sel), t \in AvailableOn(d) \ Range(sel) :
                       Ahead(s, t, d)

\* two staff of different specialties are available on the second date with
\* unequal work counts, a third specialty is on leave, and the one with the
\* higher count is left out although the earlier date picked that one
C28_Witness ==
    /\ pc = "done"
    /\ Cardinality(all_specialties) = 3
    /\ \E d \in DOMAIN roster :
          /\ Cardinality(AvailableOn(d)) = 2
          /\ Len(roster[d].staff) = 1
          /\ \E t \in AvailableOn(d) \ SelectedOn(d) :
                /\ WorkBefore(t, d) = 1
                /\ Pos(all_staff, t) < Pos(all_staff, roster[d].staff[1])

\* ------------------------- solve_greedy on windows where its defaults bind
\* the smallest staff list and window on which the default head count and the
\* default run limit cut an assignment short
GreedyStaff == DefaultMinRequired + 1
GreedyWindow == DefaultMaxConsecutive + 1

\* what add_constraint has registered: each of the two classes solve_greedy
\* looks up is present or absent
GreedyRegistrations ==
    {min \o max :
        min \in {<< >>} \cup {<<Registered("minimum_staff", "hard", m)>> :
                                 m \in MinStaffValues},
        max \in {<< >>} \cup {<<Registered("max_consecutive_days", "hard", m)>> :
                                 m \in MaxDaysValues}}

InitGreedy ==
    /\ \E n \in 1..GreedyWindow : InitRequest(GreedyStaff, n)
    /\ \A s \in StaffSet : specialty[s] = "Cardiology"
    /\ set_order[1] = "Cardiology"
    /\ min_staff = 1
    /\ NoAux
    /\ domains = InitialDomains
    /\ constraints \in GreedyRegistrations
    /\ assignment = << >>
    /\ bt_stack = << >>
    /\ iterations = 0
    /\ solution = NoSolution
    /\ algorithm = "none"
    /\ run2 = NoRun
    /\ pc = "ready"

NextGreedy == SolveGreedy

SpecGreedy == InitGreedy /\ [][NextGreedy]_vars

AssignedOn(x, d) == {s \in StaffSet : x[<<s, d>>] = 1}

\* C29: solve_greedy returns a total assignment in which no staff member has a
\* run longer than the registered MaxConsecutiveDays limit (5 when none is
\* registered) and no date has more assigned staff than the registered
\* MinimumStaff requirement (2 when none is registered).
C29_GreedyStaysWithinLimits ==
    (pc = "solved" /\ algorithm = "solve_greedy") =>
        /\ ~solution.is_none
        /\ DOMAIN solution.value = Cells
        /\ \A c \in Cells : solution.value[c] \in {0, 1}
        /\ \A s \in StaffSet :
              ~HasLongRun(solution.value, s,
                          FirstRegistered("max_consecutive_days", 5))
        /\ \A d \in Dates :
              Cardinality(AssignedOn(solution.value, d))
                  <= FirstRegistered("minimum_staff", 2)

\* nothing is registered: a staff member free on all six dates has worked the
\* first five in a row and is refused the sixth, which stays below the minimum
\* of two
C29_Witness ==
    /\ pc = "solved"
    /\ algorithm = "solve_greedy"
    /\ constraints = << >>
    /\ Len(dates) = 6
    /\ \E s \in StaffSet :
          /\ \A d \in 1..5 : solution.value[<<s, d>>] = 1
          /\ 1 \in domains[<<s, 6>>]
          /\ solution.value[<<s, 6>>] = 0
          /\ Cardinality(AssignedOn(solution.value, 6)) < 2

\* no leave row falls inside the window and every staff member has the same
\* specialty
NoLeaveOneSpecialty ==
    /\ \A s \in StaffSet : leave_dates[s] \cap Dates = {}
    /\ Cardinality(all_specialties) = 1

\* C30: in the greedy generator, when no staff member has leave inside the
\* window and all staff share one specialty, the work counts of any two staff
\* members differ by at most 1 after every processed date.
C30_WorkloadsStayBalanced ==
    NoLeaveOneSpecialty =>
        \A s, t \in StaffSet : Abs(staff_work_count[s] - staff_work_count[t]) <= 1

\* three staff, two dates processed, fewer picks per date than staff: one
\* member has worked both dates and another only one
C30_Witness ==
    /\ pc = "done"
    /\ NoLeaveOneSpecialty
    /\ Len(all_staff) = 3
    /\ Len(dates) = 2
    /\ \E s, t \in StaffSet : staff_work_count[s] = 2 /\ staff_work_count[t] = 1
====
